---- MODULE Spec2Model ----
(***************************************************************************)
(* Model of the tree cache of main.py: BUFFER_ID_TO_TREE, the handlers     *)
(* that write it (parse_view, on_text_changed_async), trim_cached_trees,   *)
(* publish_tree_update and the background thread that runs                 *)
(* load_languages.                                                         *)
(*                                                                         *)
(* Two threads touch the cache: "worker", the host's single thread for     *)
(* async callbacks (one handler at a time, FIFO), and "loader", the        *)
(* Thread that plugin_loaded starts.  A handler is a sequence of steps,    *)
(* one per access to shared state, so that the two threads interleave the  *)
(* way the interpreter lets them.                                          *)
(*                                                                         *)
(* A tree is abstracted to what it was made from: the grammar the parser   *)
(* was bound to and the text that was parsed.  A buffer's text is the      *)
(* sequence of inserted characters.                                        *)
(***************************************************************************)
EXTENDS Integers, Sequences, FiniteSets, Bags, TLC

\* ---------------------------------------------------------------- bounds
\* capacity of the cache (32 in main.py; scaled down so that eviction happens)
MAX_CACHED_TREES == 2
\* buffer ids are 1..NumBuffers
NumBuffers == 4
\* largest value time.monotonic() returns
MaxClock == 3
\* events in a run: handlers the async worker runs, syntax reassignments and
\* closes done by the user
MaxEvents == 3
\* among them, syntax reassignments and closes
MaxEnvChanges == 1
\* among them, events that change a buffer's text (edit, reload, revert)
MaxTextEvents == 1
\* longest buffer text
MaxLen == 2
\* most changes carried by one text-change event
MaxChanges == 2

Buffers == 1..NumBuffers
\* the buffer of the active window's active view while the plugin loads
ActiveBuffer == 1
\* buffers whose view has no window (view.window() is None)
Windowless == {2}
HasWindow(b) == b \notin Windowless
Chars == {"x"}
Threads == {"worker", "loader"}

\* view.syntax() is None
None == "None"
\* scopes a view can have: no syntax, an empty scope, an unsupported scope,
\* and scopes of LANGUAGE_NAME_TO_SCOPES
Scopes == {None, "", "source.cobol", "source.python", "source.js"}

\* utils.py LANGUAGE_NAME_TO_SCOPES, restricted to two languages
LANGUAGE_NAME_TO_SCOPES ==
    [name \in {"python", "javascript"} |->
        IF name = "python" THEN {"source.python"} ELSE {"source.js", "source.jsx"}]

\* languages whose .so file exists when plugin_loaded runs, and those that
\* load_languages builds in the background
BuiltAtStart == {"python"}
BuiltByLoader == {"python", "javascript"}

\* the text of every file on disk when it is opened or reverted, and after the
\* file was changed outside the editor
SavedText == <<>>
ReloadedText == <<"x">>

NoTree == [language |-> "none", text |-> <<>>]

\* Parser instances, named by what made them: the one of the event listener
\* (self.parser), the one of the text-change listener of buffer b
\* (self.parser, a listener per buffer), the Parser() of load_languages
NoParser == [owner |-> "none", buffer_id |-> 0]
EventListenerParser == [owner |-> "TreeSitterEventListener", buffer_id |-> 0]
TextChangeListenerParser(b) == [owner |-> "TreeSitterTextChangeListener", buffer_id |-> b]
\* load_languages given the parser of the event listener
LoadLanguagesParser_Shared == EventListenerParser
LoadLanguagesParser == [owner |-> "load_languages", buffer_id |-> 0]

\* an empty dict
EmptyDict == [k \in {} |-> 0]

VARIABLES
    SCOPE_TO_LANGUAGE,  \* scope -> language name
    BUFFER_ID_TO_TREE,  \* buffer id -> [tree, updated_s]
    clock,              \* last value returned by time.monotonic()
    bufText,            \* buffer id -> current text of the buffer
    bufScope,           \* buffer id -> scope of the buffer's syntax
    closed,             \* buffers the user has closed
    pc,                 \* thread -> position
    loc,                \* thread -> locals of the running handler
    published,          \* bag of the tree_sitter_update_tree commands run
    max_evicted,        \* history: largest updated_s of an entry trimmed so far
    raised,             \* history: threads whose handler ended with an exception
    nEvents,            \* events so far
    nEnv,               \* syntax reassignments and closes so far
    nText               \* events that changed a text so far

vars == <<SCOPE_TO_LANGUAGE, BUFFER_ID_TO_TREE, clock, bufText, bufScope, closed,
          pc, loc, published, max_evicted, raised, nEvents, nEnv, nText>>

env == <<bufText, bufScope, closed>>

\* ------------------------------------------------------------- functions

\* instantiate_languages: every scope of every built language is registered
instantiate_languages(reg, built) ==
    LET new == UNION {LANGUAGE_NAME_TO_SCOPES[n] : n \in built}
    IN [s \in DOMAIN reg \cup new |->
          IF s \in new
          THEN CHOOSE n \in built : s \in LANGUAGE_NAME_TO_SCOPES[n]
          ELSE reg[s]]

\* check_scope with a fallback to the python grammar for a scope that is not
\* registered
check_scope_Fallback(scope, reg) ==
    IF scope = None \/ scope = "" THEN None
    ELSE IF scope \notin DOMAIN reg THEN "source.python" ELSE scope

\* check_scope: None for a missing, empty or unregistered scope
check_scope(scope, reg) ==
    IF scope = None \/ scope = "" \/ scope \notin DOMAIN reg THEN None ELSE scope

\* parse: binds the parser to the scope's language and parses the text
parse(scope, s, reg) == [language |-> reg[scope], text |-> s]

\* edit: binds the parser to the scope's language and returns the tree it was given
edit(scope, change, tree, reg) == tree

\* make_tree_dict
make_tree_dict(tree, now) == [tree |-> tree, updated_s |-> now]

\* time.monotonic(): never goes back, may return the same value twice
monotonic(now) == {t \in {now, now + 1} : t <= MaxClock}

\* BUFFER_ID_TO_TREE[buffer_id] = d
Store(cache, buffer_id, d) ==
    [b \in DOMAIN cache \cup {buffer_id} |-> IF b = buffer_id THEN d ELSE cache[b]]

\* BUFFER_ID_TO_TREE.pop(buffer_id, None)
Pop(cache, buffer_id) == [b \in DOMAIN cache \ {buffer_id} |-> cache[b]]

\* max in the place of min: the most recently updated entry
MinEntry_Newest(cache) ==
    CHOOSE b \in DOMAIN cache :
        \A c \in DOMAIN cache :
            \/ cache[b].updated_s > cache[c].updated_s
            \/ cache[b].updated_s = cache[c].updated_s /\ b >= c

\* min((d["updated_s"], buffer_id) for buffer_id, d in cache.items())[1]
MinEntry(cache) ==
    CHOOSE b \in DOMAIN cache :
        \A c \in DOMAIN cache :
            \/ cache[b].updated_s < cache[c].updated_s
            \/ cache[b].updated_s = cache[c].updated_s /\ b <= c

Size(cache) == Cardinality(DOMAIN cache)

IdleLoc ==
    [op |-> "none", parser |-> NoParser, buffer_id |-> 0, scope |-> None, tree |-> NoTree, updated_s |-> 0,
     changes |-> <<>>, publish_update |-> TRUE, iter_len |-> 0, victim |-> 0,
     parsed |-> FALSE, wrote |-> FALSE, announced |-> FALSE]

\* where a thread goes when its handler ends
Rest(t) == IF t = "worker" THEN "idle" ELSE "done"

\* --------------------------------------------------------------- initial

Init ==
    /\ SCOPE_TO_LANGUAGE = instantiate_languages(EmptyDict, BuiltAtStart)
    /\ BUFFER_ID_TO_TREE = EmptyDict
    /\ clock = 1
    /\ bufText = [b \in Buffers |-> <<>>]
    /\ bufScope = [b \in Buffers |-> "source.python"]
    /\ closed = {}
    /\ pc = [t \in Threads |-> IF t = "worker" THEN "idle" ELSE "load_languages"]
    /\ loc = [t \in Threads |-> IdleLoc]
    /\ published = EmptyBag
    /\ max_evicted = 0
    /\ raised = {}
    /\ nEvents = 0
    /\ nEnv = 0
    /\ nText = 0

\* ----------------------------------------------------------------- steps

\* a handler of thread t ends (normally, or with the exception exc = TRUE)
Return(t, exc) ==
    /\ pc' = [pc EXCEPT ![t] = Rest(t)]
    /\ loc' = [loc EXCEPT ![t] = IdleLoc]
    /\ raised' = IF exc THEN raised \cup {t} ELSE raised

\* parse_view up to the evaluation of make_tree_dict(tree): the scope check,
\* the full parse of the view's text, the reading of the clock
BeginParseView(t, parser, b, text, publish_update) ==
    LET scope == check_scope(bufScope[b], SCOPE_TO_LANGUAGE) IN
    IF scope = None
    THEN /\ Return(t, FALSE)
         /\ UNCHANGED clock
    ELSE \E now \in monotonic(clock) :
            /\ clock' = now
            /\ loc' = [loc EXCEPT ![t] =
                  [IdleLoc EXCEPT !.op = "parse_view", !.parser = parser,
                                  !.buffer_id = b, !.scope = scope,
                                  !.parsed = TRUE,
                                  !.tree = parse(scope, text, SCOPE_TO_LANGUAGE),
                                  !.updated_s = now,
                                  !.publish_update = publish_update]]
            /\ pc' = [pc EXCEPT ![t] = "store"]
            /\ UNCHANGED raised

\* an event is taken from the queue of async callbacks
Admit(b) ==
    /\ pc["worker"] = "idle"
    /\ b \notin closed
    /\ nEvents < MaxEvents
    /\ nEvents' = nEvents + 1

\* handle_load
handle_load(b, text) == BeginParseView("worker", EventListenerParser, b, text, TRUE)

\* on_activated_async
on_activated_async(b) ==
    /\ Admit(b)
    /\ IF b \notin DOMAIN BUFFER_ID_TO_TREE
       THEN handle_load(b, bufText[b])
       ELSE UNCHANGED <<pc, loc, clock, raised>>
    /\ UNCHANGED <<SCOPE_TO_LANGUAGE, BUFFER_ID_TO_TREE, env, published, max_evicted, nEnv, nText>>

\* on_load_async
on_load_async(b) ==
    /\ Admit(b)
    /\ IF b \notin DOMAIN BUFFER_ID_TO_TREE
       THEN handle_load(b, bufText[b])
       ELSE UNCHANGED <<pc, loc, clock, raised>>
    /\ UNCHANGED <<SCOPE_TO_LANGUAGE, BUFFER_ID_TO_TREE, env, published, max_evicted, nEnv, nText>>

\* on_reload_async with the membership test of on_load_async: a buffer that has
\* an entry is not parsed again
on_reload_async_IfAbsent(b) ==
    /\ Admit(b)
    /\ nText < MaxTextEvents
    /\ nText' = nText + 1
    /\ bufText' = [bufText EXCEPT ![b] = ReloadedText]
    /\ IF b \notin DOMAIN BUFFER_ID_TO_TREE
       THEN handle_load(b, ReloadedText)
       ELSE UNCHANGED <<pc, loc, clock, raised>>
    /\ UNCHANGED <<SCOPE_TO_LANGUAGE, BUFFER_ID_TO_TREE, bufScope, closed,
                   published, max_evicted, nEnv>>

\* on_reload_async: the file changed on disk, the host has replaced the text
on_reload_async(b) ==
    /\ Admit(b)
    /\ nText < MaxTextEvents
    /\ nText' = nText + 1
    /\ bufText' = [bufText EXCEPT ![b] = ReloadedText]
    /\ handle_load(b, ReloadedText)
    /\ UNCHANGED <<SCOPE_TO_LANGUAGE, BUFFER_ID_TO_TREE, bufScope, closed,
                   published, max_evicted, nEnv>>

\* on_revert_async: the host has replaced the text by the saved text
on_revert_async(b) ==
    /\ Admit(b)
    /\ nText < MaxTextEvents
    /\ nText' = nText + 1
    /\ bufText' = [bufText EXCEPT ![b] = SavedText]
    /\ handle_load(b, SavedText)
    /\ UNCHANGED <<SCOPE_TO_LANGUAGE, BUFFER_ID_TO_TREE, bufScope, closed,
                   published, max_evicted, nEnv>>

\* on_text_changed_async up to its loop: the buffer's text has the changes
\* applied when the callback runs
on_text_changed_async(b, changes) ==
    /\ Admit(b)
    /\ nText < MaxTextEvents
    /\ nText' = nText + 1
    /\ Len(bufText[b]) + Len(changes) <= MaxLen
    /\ bufText' = [bufText EXCEPT ![b] = bufText[b] \o changes]
    /\ LET scope == check_scope(bufScope[b], SCOPE_TO_LANGUAGE) IN
       IF scope = None
       THEN Return("worker", FALSE)
       ELSE /\ loc' = [loc EXCEPT !["worker"] =
                  [IdleLoc EXCEPT !.op = "on_text_changed_async",
                                  !.parser = TextChangeListenerParser(b), !.buffer_id = b,
                                  !.scope = scope, !.changes = changes]]
            /\ pc' = [pc EXCEPT !["worker"] =
                  IF changes = <<>> THEN "publish" ELSE "change"]
            /\ UNCHANGED raised
    /\ UNCHANGED <<SCOPE_TO_LANGUAGE, BUFFER_ID_TO_TREE, clock, bufScope, closed,
                   published, max_evicted, nEnv>>

\* the loop over the changes: the membership test, and for a buffer without
\* an entry the full parse and the reading of the clock
ForChange(t) ==
    /\ pc[t] = "change"
    /\ LET l == loc[t] IN
       IF l.buffer_id \notin DOMAIN BUFFER_ID_TO_TREE
       THEN \E now \in monotonic(clock) :
               /\ clock' = now
               /\ loc' = [loc EXCEPT ![t].tree =
                              parse(l.scope, bufText[l.buffer_id], SCOPE_TO_LANGUAGE),
                                     ![t].updated_s = now,
                                     ![t].parsed = TRUE,
                                     ![t].changes = Tail(l.changes)]
               /\ pc' = [pc EXCEPT ![t] = "change_store"]
       ELSE /\ pc' = [pc EXCEPT ![t] = "change_edit"]
            /\ UNCHANGED <<loc, clock>>
    /\ UNCHANGED <<SCOPE_TO_LANGUAGE, BUFFER_ID_TO_TREE, env, published, max_evicted,
                   raised, nEvents, nEnv, nText>>

\* edit(self.parser, scope, change, BUFFER_ID_TO_TREE[buffer_id]["tree"]): a
\* KeyError when the entry was removed since the membership test
ChangeEdit(t) ==
    /\ pc[t] = "change_edit"
    /\ LET l == loc[t] IN
       IF l.buffer_id \notin DOMAIN BUFFER_ID_TO_TREE
       THEN /\ Return(t, TRUE)
            /\ UNCHANGED clock
       ELSE \E now \in monotonic(clock) :
               /\ clock' = now
               /\ loc' = [loc EXCEPT ![t].tree =
                              edit(l.scope, Head(l.changes),
                                   BUFFER_ID_TO_TREE[l.buffer_id].tree, SCOPE_TO_LANGUAGE),
                                     ![t].updated_s = now,
                                     ![t].changes = Tail(l.changes)]
               /\ pc' = [pc EXCEPT ![t] = "change_store"]
               /\ UNCHANGED raised
    /\ UNCHANGED <<SCOPE_TO_LANGUAGE, BUFFER_ID_TO_TREE, env, published, max_evicted,
                   nEvents, nEnv, nText>>

\* BUFFER_ID_TO_TREE[buffer_id] = make_tree_dict(tree), in the loop
ChangeStore(t) ==
    /\ pc[t] = "change_store"
    /\ BUFFER_ID_TO_TREE' = Store(BUFFER_ID_TO_TREE, loc[t].buffer_id,
                                  make_tree_dict(loc[t].tree, loc[t].updated_s))
    /\ loc' = [loc EXCEPT ![t].tree = NoTree, ![t].updated_s = 0,
                          ![t].wrote = TRUE, ![t].announced = FALSE]
    /\ pc' = [pc EXCEPT ![t] = IF loc[t].changes = <<>> THEN "publish" ELSE "change"]
    /\ UNCHANGED <<SCOPE_TO_LANGUAGE, clock, env, published, max_evicted, raised, nEvents, nEnv, nText>>

\* BUFFER_ID_TO_TREE[buffer_id] = make_tree_dict(tree), in parse_view, and the
\* test of publish_update
ParseViewStore(t) ==
    /\ pc[t] = "store"
    /\ BUFFER_ID_TO_TREE' = Store(BUFFER_ID_TO_TREE, loc[t].buffer_id,
                                  make_tree_dict(loc[t].tree, loc[t].updated_s))
    /\ loc' = [loc EXCEPT ![t].tree = NoTree, ![t].updated_s = 0,
                          ![t].wrote = TRUE, ![t].announced = FALSE]
    /\ pc' = [pc EXCEPT ![t] = IF loc[t].publish_update THEN "publish" ELSE "trim"]
    /\ UNCHANGED <<SCOPE_TO_LANGUAGE, clock, env, published, max_evicted, raised, nEvents, nEnv, nText>>

\* the loop test off by one: one entry too many is let through
TrimTest_OffByOne(t, l) ==
    IF Size(BUFFER_ID_TO_TREE) > MAX_CACHED_TREES + 1
    THEN /\ loc' = [loc EXCEPT ![t] = [l EXCEPT !.iter_len = Size(BUFFER_ID_TO_TREE)]]
         /\ pc' = [pc EXCEPT ![t] = "trim_min"]
         /\ UNCHANGED raised
    ELSE Return(t, FALSE)

\* trim_cached_trees, the loop test of thread t whose locals are l; when over
\* capacity the iteration over the dict's items starts
TrimTest(t, l) ==
    IF Size(BUFFER_ID_TO_TREE) > MAX_CACHED_TREES
    THEN /\ loc' = [loc EXCEPT ![t] = [l EXCEPT !.iter_len = Size(BUFFER_ID_TO_TREE)]]
         /\ pc' = [pc EXCEPT ![t] = "trim_min"]
         /\ UNCHANGED raised
    ELSE Return(t, FALSE)

\* publish_tree_update with the test of the window inverted
publish_tree_update_Inverted(t, window) ==
    /\ pc[t] = "publish"
    /\ IF ~window
       THEN /\ published' = published (+)
                   SetToBag({[buffer_id |-> loc[t].buffer_id, scope |-> loc[t].scope]})
            /\ TrimTest(t, [loc[t] EXCEPT !.announced = TRUE])
       ELSE /\ UNCHANGED published
            /\ TrimTest(t, loc[t])
    /\ UNCHANGED <<SCOPE_TO_LANGUAGE, BUFFER_ID_TO_TREE, clock, env, max_evicted, nEvents,
                   nEnv, nText>>

\* publish_tree_update, then the call of trim_cached_trees; window is
\* view.window(), FALSE for a view that has none
publish_tree_update(t, window) ==
    /\ pc[t] = "publish"
    /\ IF window
       THEN /\ published' = published (+)
                   SetToBag({[buffer_id |-> loc[t].buffer_id, scope |-> loc[t].scope]})
            /\ TrimTest(t, [loc[t] EXCEPT !.announced = TRUE])
       ELSE /\ UNCHANGED published
            /\ TrimTest(t, loc[t])
    /\ UNCHANGED <<SCOPE_TO_LANGUAGE, BUFFER_ID_TO_TREE, clock, env, max_evicted, nEvents, nEnv, nText>>

\* trim_cached_trees, the loop test
trim_cached_trees(t) ==
    /\ pc[t] = "trim"
    /\ TrimTest(t, loc[t])
    /\ UNCHANGED <<SCOPE_TO_LANGUAGE, BUFFER_ID_TO_TREE, clock, env, published,
                   max_evicted, nEvents, nEnv, nText>>

\* trim_cached_trees(size) called on its own, from the thread of the async
\* callbacks: the loop test does not read size
TrimCachedTreesCall(size) ==
    /\ pc["worker"] = "idle"
    /\ nEvents < MaxEvents
    /\ nEvents' = nEvents + 1
    /\ TrimTest("worker", loc["worker"])
    /\ UNCHANGED <<SCOPE_TO_LANGUAGE, BUFFER_ID_TO_TREE, clock, env, published,
                   max_evicted, nEnv, nText>>

\* trim_cached_trees, the min over the items: a RuntimeError when the dict
\* changed size during the iteration
TrimMin(t) ==
    /\ pc[t] = "trim_min"
    /\ IF Size(BUFFER_ID_TO_TREE) # loc[t].iter_len
       THEN Return(t, TRUE)
       ELSE /\ loc' = [loc EXCEPT ![t].victim = MinEntry(BUFFER_ID_TO_TREE),
                                  ![t].iter_len = 0]
            /\ pc' = [pc EXCEPT ![t] = "trim_pop"]
            /\ UNCHANGED raised
    /\ UNCHANGED <<SCOPE_TO_LANGUAGE, BUFFER_ID_TO_TREE, clock, env, published,
                   max_evicted, nEvents, nEnv, nText>>

\* trim_cached_trees, the pop
TrimPop(t) ==
    /\ pc[t] = "trim_pop"
    /\ BUFFER_ID_TO_TREE' = Pop(BUFFER_ID_TO_TREE, loc[t].victim)
    /\ max_evicted' =
          IF loc[t].victim \in DOMAIN BUFFER_ID_TO_TREE
             /\ BUFFER_ID_TO_TREE[loc[t].victim].updated_s > max_evicted
          THEN BUFFER_ID_TO_TREE[loc[t].victim].updated_s
          ELSE max_evicted
    /\ loc' = [loc EXCEPT ![t].victim = 0]
    /\ pc' = [pc EXCEPT ![t] = "trim"]
    /\ UNCHANGED <<SCOPE_TO_LANGUAGE, clock, env, published, raised, nEvents, nEnv, nText>>

\* load_languages up to instantiate_languages (clone and build have made the
\* .so files of BuiltByLoader)
load_languages ==
    /\ pc["loader"] = "load_languages"
    /\ SCOPE_TO_LANGUAGE' = instantiate_languages(SCOPE_TO_LANGUAGE, BuiltByLoader)
    /\ pc' = [pc EXCEPT !["loader"] = "active_view"]
    /\ UNCHANGED <<BUFFER_ID_TO_TREE, clock, env, loc, published, max_evicted, raised,
                   nEvents, nEnv, nText>>

\* load_languages calling parse_view with publish_update left at its default
LoadActiveView_Publishing(v) ==
    /\ pc["loader"] = "active_view"
    /\ v \notin closed
    /\ IF v = 0 \/ v \in DOMAIN BUFFER_ID_TO_TREE
       THEN /\ Return("loader", FALSE)
            /\ UNCHANGED clock
       ELSE BeginParseView("loader", LoadLanguagesParser, v, bufText[v], TRUE)
    /\ UNCHANGED <<SCOPE_TO_LANGUAGE, BUFFER_ID_TO_TREE, env, published, max_evicted,
                   nEvents, nEnv, nText>>

\* load_languages, the parse of the active view v (0: there is none)
LoadActiveView(v) ==
    /\ pc["loader"] = "active_view"
    /\ v \notin closed
    /\ IF v = 0 \/ v \in DOMAIN BUFFER_ID_TO_TREE
       THEN /\ Return("loader", FALSE)
            /\ UNCHANGED clock
       ELSE BeginParseView("loader", LoadLanguagesParser, v, bufText[v], FALSE)
    /\ UNCHANGED <<SCOPE_TO_LANGUAGE, BUFFER_ID_TO_TREE, env, published, max_evicted,
                   nEvents, nEnv, nText>>

\* the user assigns another syntax to a buffer
SetSyntax(b, s) ==
    /\ b \notin closed
    /\ s # bufScope[b]
    /\ pc["worker"] = "idle"
    /\ nEnv < MaxEnvChanges
    /\ nEnv' = nEnv + 1
    /\ nEvents < MaxEvents
    /\ nEvents' = nEvents + 1
    /\ bufScope' = [bufScope EXCEPT ![b] = s]
    /\ UNCHANGED <<SCOPE_TO_LANGUAGE, BUFFER_ID_TO_TREE, clock, bufText, closed, pc, loc,
                   published, max_evicted, raised, nText>>

\* the user closes a buffer; the plugin has no handler for it
Close(b) ==
    /\ b \notin closed
    /\ pc["worker"] = "idle"
    /\ nEnv < MaxEnvChanges
    /\ nEnv' = nEnv + 1
    /\ nEvents < MaxEvents
    /\ nEvents' = nEvents + 1
    /\ closed' = closed \cup {b}
    /\ UNCHANGED <<SCOPE_TO_LANGUAGE, BUFFER_ID_TO_TREE, clock, bufText, bufScope, pc, loc,
                   published, max_evicted, raised, nText>>

ChangeLists == UNION {[1..n -> Chars] : n \in 1..MaxChanges}

\* values of the size argument of trim_cached_trees
TrimSizes == 0..MAX_CACHED_TREES

Next ==
    \/ \E b \in Buffers : on_activated_async(b)
    \/ \E b \in Buffers : on_load_async(b)
    \/ \E b \in Buffers : on_reload_async(b)
    \/ \E b \in Buffers : on_revert_async(b)
    \/ \E b \in Buffers, changes \in ChangeLists : on_text_changed_async(b, changes)
    \/ \E t \in Threads : ForChange(t)
    \/ \E t \in Threads : ChangeEdit(t)
    \/ \E t \in Threads : ChangeStore(t)
    \/ \E t \in Threads : ParseViewStore(t)
    \/ \E t \in Threads : publish_tree_update(t, HasWindow(loc[t].buffer_id))
    \/ \E t \in Threads : trim_cached_trees(t)
    \/ \E size \in TrimSizes : TrimCachedTreesCall(size)
    \/ \E t \in Threads : TrimMin(t)
    \/ \E t \in Threads : TrimPop(t)
    \/ load_languages
    \/ \E v \in {0, ActiveBuffer} : LoadActiveView(v)
    \/ \E b \in Buffers, s \in Scopes : SetSyntax(b, s)
    \/ \E b \in Buffers : Close(b)

Spec == Init /\ [][Next]_vars

\* ---------------------------------------------------------------- claims

\* no call of parse_view or on_text_changed_async is in progress
Quiescent ==
    /\ pc["worker"] = "idle"
    /\ pc["loader"] \in {"load_languages", "active_view", "done"}

\* the step ends the handler that thread t is running
Ends(t) ==
    /\ pc[t] \notin {"idle", "done", "load_languages", "active_view"}
    /\ pc'[t] = Rest(t)

\* the step of thread t raises: the RuntimeError of the min, the KeyError of
\* the subscript
Raises(t) ==
    \/ pc[t] = "trim_min" /\ Size(BUFFER_ID_TO_TREE) # loc[t].iter_len
    \/ pc[t] = "change_edit" /\ loc[t].buffer_id \notin DOMAIN BUFFER_ID_TO_TREE

\* the step is the return of the handler that thread t is running
Returns(t) == Ends(t) /\ ~Raises(t)

\* the scope of buffer b is missing, empty or not registered
Unsupported(b) ==
    \/ bufScope[b] = None
    \/ bufScope[b] = ""
    \/ bufScope[b] \notin DOMAIN SCOPE_TO_LANGUAGE

\* C1: when no handler is in progress (every handler that was started has
\* ended), the cache holds at most MAX_CACHED_TREES entries.
C1_BoundedWhenReturned ==
    Quiescent => Size(BUFFER_ID_TO_TREE) <= MAX_CACHED_TREES

\* C1 witness: an entry was evicted (the cache was over capacity) and the
\* handlers have returned with the cache full.
C1_Witness ==
    /\ Quiescent
    /\ max_evicted > 0
    /\ Size(BUFFER_ID_TO_TREE) = MAX_CACHED_TREES

\* C2 (as claimed): once the worker has handled its events, and while the
\* loader thread has not run, the tree cached for a buffer with a supported
\* scope is the tree of the buffer's text, edits included.
C2_TreeFollowsEdits ==
    (pc["worker"] = "idle" /\ pc["loader"] = "load_languages")
        => \A b \in DOMAIN BUFFER_ID_TO_TREE :
              ~Unsupported(b) => BUFFER_ID_TO_TREE[b].tree.text = bufText[b]

\* thread t is between its parse (or edit) of a buffer and the write of the
\* result to the buffer's entry
Writing(t) == pc[t] \in {"store", "change", "change_edit", "change_store"}

\* C3 (as claimed): no two threads are parsing-and-writing the entry of the
\* same buffer at the same time.
C3_OneWriterPerBuffer ==
    ~ /\ Writing("worker")
      /\ Writing("loader")
      /\ loc["worker"].buffer_id = loc["loader"].buffer_id

\* C4 (as claimed): a buffer has a cache entry only if its current scope is
\* registered.
C4_EntryOnlyIfSupported ==
    \A b \in DOMAIN BUFFER_ID_TO_TREE : ~Unsupported(b)

\* C5 (as claimed): when the worker returns from a handler for a buffer, the
\* buffer's cached tree was made with the grammar of the buffer's current
\* scope (checked while the loader thread has written nothing).
C5_TreeOfCurrentScope ==
    [][(/\ Returns("worker")
        /\ pc["loader"] \in {"load_languages", "active_view"}
        /\ loc["worker"].buffer_id \in DOMAIN BUFFER_ID_TO_TREE')
       => BUFFER_ID_TO_TREE'[loc["worker"].buffer_id].tree.language
            = SCOPE_TO_LANGUAGE[bufScope[loc["worker"].buffer_id]]]_vars

\* a notification for the writes of thread t's handler is out when the step is over
AnnouncedAtEnd(t) ==
    \/ loc[t].announced
    \/ pc[t] = "publish" /\ published' # published

C7_ClosedNotCached ==
    \A b \in closed : b \notin DOMAIN BUFFER_ID_TO_TREE

\* C8: once the worker's handlers have written more buffers than the cache
\* holds, one write and its trim after the other, and have returned, the cache
\* holds exactly MAX_CACHED_TREES entries and each of them has an updated_s at
\* least as large as that of every entry evicted.
C8_NewestRetained ==
    (Quiescent /\ pc["loader"] # "done" /\ max_evicted > 0)
        => /\ Size(BUFFER_ID_TO_TREE) = MAX_CACHED_TREES
           /\ \A b \in DOMAIN BUFFER_ID_TO_TREE :
                 BUFFER_ID_TO_TREE[b].updated_s >= max_evicted

\* C8 witness: an older entry was evicted and the entries retained are newer.
C8_Witness ==
    /\ Quiescent
    /\ pc["loader"] # "done"
    /\ max_evicted > 0
    /\ Size(BUFFER_ID_TO_TREE) = MAX_CACHED_TREES
    /\ \A b \in DOMAIN BUFFER_ID_TO_TREE : BUFFER_ID_TO_TREE[b].updated_s > max_evicted

\* the worker takes an event for buffer b
EventFor(b) ==
    \/ on_activated_async(b)
    \/ on_load_async(b)
    \/ on_reload_async(b)
    \/ on_revert_async(b)
    \/ \E changes \in ChangeLists : on_text_changed_async(b, changes)

\* C9: a handler called for a view whose scope is missing, empty or not
\* registered returns at once: the cache and the notifications are as before
\* and no step of the handler is left to run.
C9_UnsupportedUntouched ==
    [][\A b \in Buffers :
         /\ (Unsupported(b) /\ EventFor(b))
               => /\ BUFFER_ID_TO_TREE' = BUFFER_ID_TO_TREE
                  /\ published' = published
                  /\ pc' = pc /\ loc' = loc
         /\ (Unsupported(b) /\ LoadActiveView(b))
               => /\ BUFFER_ID_TO_TREE' = BUFFER_ID_TO_TREE
                  /\ published' = published
                  /\ pc'["loader"] = "done" /\ loc' = loc]_vars

\* C9 witness: the text of a buffer with an unsupported scope was changed by
\* an event, the only handler run so far, and nothing is cached or published.
C9_Witness ==
    /\ Quiescent
    /\ pc["loader"] = "load_languages"
    /\ \E b \in Buffers : Unsupported(b) /\ bufText[b] # <<>>
    /\ BUFFER_ID_TO_TREE = EmptyDict
    /\ published = EmptyBag

\* C10 (as claimed): when on_text_changed_async found no entry for its buffer
\* and did a full parse, the cache holds, when the handler returns, an entry
\* for the buffer with the tree of the buffer's text (checked while the loader
\* thread has not run).
C10_FullParseCached ==
    [][(/\ Returns("worker")
        /\ loc["worker"].op = "on_text_changed_async"
        /\ loc["worker"].parsed
        /\ pc["loader"] = "load_languages")
       => /\ loc["worker"].buffer_id \in DOMAIN BUFFER_ID_TO_TREE'
          /\ BUFFER_ID_TO_TREE'[loc["worker"].buffer_id].tree.text
                = bufText[loc["worker"].buffer_id]]_vars

\* C11: a reload or a revert event for a buffer with a supported scope does a
\* full parse of the buffer's text of that moment, whether the buffer has an
\* entry or not, and reads the clock; the write of parse_view that follows
\* replaces the buffer's entry by that tree with that timestamp, so that
\* nothing of the prior entry is kept.
C11_ReloadFullParse ==
    [][/\ \A b \in Buffers :
            ((on_reload_async(b) \/ on_revert_async(b)) /\ ~Unsupported(b))
               => /\ pc'["worker"] = "store"
                  /\ loc'["worker"].buffer_id = b
                  /\ loc'["worker"].tree =
                        [language |-> SCOPE_TO_LANGUAGE[bufScope[b]], text |-> bufText'[b]]
                  /\ loc'["worker"].updated_s = clock'
                  /\ clock' >= clock
       /\ ParseViewStore("worker")
            => /\ BUFFER_ID_TO_TREE'[loc["worker"].buffer_id] =
                     [tree |-> loc["worker"].tree, updated_s |-> loc["worker"].updated_s]
               /\ loc["worker"].tree.text = bufText[loc["worker"].buffer_id]]_vars

\* C11 witness: a buffer that had an entry and a notification from its load
\* was reloaded; its entry now holds the tree of the reloaded text and the
\* handler is about to publish.
C11_Witness ==
    /\ pc["worker"] = "publish"
    /\ loc["worker"].wrote
    /\ loc["worker"].buffer_id \in DOMAIN BUFFER_ID_TO_TREE
    /\ BUFFER_ID_TO_TREE[loc["worker"].buffer_id].tree.text = ReloadedText
    /\ BUFFER_ID_TO_TREE[loc["worker"].buffer_id].updated_s > 1
    /\ CopiesIn([buffer_id |-> loc["worker"].buffer_id, scope |-> loc["worker"].scope],
                published) = 1

\* C12 (as claimed): trim_cached_trees(size) called with no handler in
\* progress returns with at most size entries in the cache.
C12_TrimHonoursSize ==
    [][\A size \in TrimSizes :
         (TrimCachedTreesCall(size) /\ pc'["worker"] = "idle")
            => Size(BUFFER_ID_TO_TREE') <= size]_vars

\* C13 (as claimed): an entry is removed from the cache only in a step that
\* starts with more than MAX_CACHED_TREES entries in the cache.
C13_RemovalOnlyOverCapacity ==
    [][Size(BUFFER_ID_TO_TREE') < Size(BUFFER_ID_TO_TREE)
          => Size(BUFFER_ID_TO_TREE) > MAX_CACHED_TREES]_vars

\* thread t is running a handler for buffer b that will publish a notification
\* for what it writes and has not published it yet
NotificationPending(t, b) ==
    /\ pc[t] \in {"store", "change", "change_edit", "change_store", "publish"}
    /\ loc[t].publish_update
    /\ loc[t].buffer_id = b

\* C14: the notifications of a buffer come out in the order in which the
\* writes that triggered them were admitted: a notification is published by
\* the handler that did the write, for the buffer it wrote, and no event for a
\* buffer is admitted while a handler still has a notification to publish for
\* that buffer.
C14_NotificationsInOrder ==
    [][/\ \A b \in Buffers :
            EventFor(b) => \A t \in Threads : ~NotificationPending(t, b)
       /\ published' # published
            => \E t \in Threads :
                  /\ pc[t] = "publish" /\ pc'[t] # "publish"
                  /\ loc[t].wrote
                  /\ published' = published (+)
                        SetToBag({[buffer_id |-> loc[t].buffer_id, scope |-> loc[t].scope]})]_vars

\* C14 witness: two writes to one buffer, a load and then a reload, have each
\* been followed by their notification.
C14_Witness ==
    /\ Quiescent
    /\ \E b \in DOMAIN BUFFER_ID_TO_TREE :
          /\ CopiesIn([buffer_id |-> b, scope |-> bufScope[b]], published) = 2
          /\ bufText[b] = ReloadedText
          /\ BUFFER_ID_TO_TREE[b].tree.text = ReloadedText

\* thread t is inside a handler, which holds a Parser instance
InHandler(t) == pc[t] \notin {"idle", "done", "load_languages", "active_view"}

\* C15: the parser a lifecycle handler uses is the event listener's, the
\* parser an edit handler uses is the one of the buffer's text-change
\* listener, load_languages uses one of its own, these are distinct
\* instances, and the two threads never hold the same instance at once.
C15_ParsersNotShared ==
    /\ \A t \in Threads :
          InHandler(t) =>
             /\ loc[t].op = "on_text_changed_async"
                   => loc[t].parser = TextChangeListenerParser(loc[t].buffer_id)
             /\ (loc[t].op = "parse_view" /\ t = "worker")
                   => loc[t].parser = EventListenerParser
             /\ (loc[t].op = "parse_view" /\ t = "loader")
                   => loc[t].parser \notin
                        {EventListenerParser} \cup {TextChangeListenerParser(b) : b \in Buffers}
    /\ (InHandler("worker") /\ InHandler("loader") /\ loc["worker"].op # "none")
          => loc["worker"].parser # loc["loader"].parser

\* C15 witness: the loader thread is inside parse_view while the worker is
\* inside a lifecycle handler, each with its parser.
C15_Witness ==
    /\ pc["worker"] = "store" /\ pc["loader"] = "store"
    /\ loc["worker"].parser = EventListenerParser
    /\ loc["loader"].parser = LoadLanguagesParser

\* C16 (as claimed): every pop of trim_cached_trees removes exactly one entry,
\* the one with the smallest updated_s and, among those, the smallest buffer id.
C16_EvictsOldest ==
    [][\A t \in Threads :
         TrimPop(t)
            => /\ BUFFER_ID_TO_TREE # EmptyDict
               /\ Size(BUFFER_ID_TO_TREE') = Size(BUFFER_ID_TO_TREE) - 1
               /\ BUFFER_ID_TO_TREE' = Pop(BUFFER_ID_TO_TREE, MinEntry(BUFFER_ID_TO_TREE))]_vars

\* C17 (as claimed): on_activated_async and on_load_async change nothing for
\* a buffer that has an entry (no entry, no notification, no step left to run)
\* and parse a supported buffer that has none; the buffer then has an entry
\* when the handler returns, so that the other of the two events, arriving
\* next for the same buffer, does not parse again (checked while only
\* activate and load events have been handled and the loader thread has not
\* run).
C17_ActivateLoadOnce ==
    [][/\ \A b \in Buffers :
            (on_activated_async(b) \/ on_load_async(b))
               => IF b \in DOMAIN BUFFER_ID_TO_TREE
                  THEN /\ BUFFER_ID_TO_TREE' = BUFFER_ID_TO_TREE
                       /\ published' = published
                       /\ pc' = pc /\ loc' = loc
                  ELSE ~Unsupported(b) => (pc'["worker"] = "store" /\ loc'["worker"].parsed)
       /\ (/\ Returns("worker")
           /\ loc["worker"].op = "parse_view" /\ loc["worker"].wrote
           /\ nText = 0
           /\ pc["loader"] = "load_languages")
            => loc["worker"].buffer_id \in DOMAIN BUFFER_ID_TO_TREE']_vars

\* C18 (as claimed, for a buffer whose view has a window): an edit event with
\* at least one change for a supported buffer runs to its publish step, where
\* all its writes are done, exactly one notification for the buffer is
\* published and the cache holds an entry for the buffer; the eviction check
\* comes after.
C18_OneNotificationPerEdit ==
    [][\A t \in Threads :
         (loc[t].op = "on_text_changed_async" /\ HasWindow(loc[t].buffer_id))
            => /\ pc[t] = "change_edit" => pc'[t] # Rest(t)
               /\ (pc[t] = "publish" /\ pc'[t] # "publish")
                    => /\ loc[t].changes = <<>> /\ loc[t].wrote
                       /\ published' = published (+)
                             SetToBag({[buffer_id |-> loc[t].buffer_id, scope |-> loc[t].scope]})
                       /\ loc[t].buffer_id \in DOMAIN BUFFER_ID_TO_TREE
                       /\ pc'[t] \in {"trim_min", Rest(t)}]_vars

\* C19 (as claimed): every handler that was started runs to its end: it ends
\* by returning, not with an exception, and its eviction loop has then run
\* until the cache holds at most MAX_CACHED_TREES entries.
C19_RunsToCompletion ==
    [][\A t \in Threads :
         Ends(t) => /\ ~Raises(t)
                    /\ raised' = raised
                    /\ Size(BUFFER_ID_TO_TREE') <= MAX_CACHED_TREES]_vars

\* C20 (as claimed): in every state the cache holds at most
\* MAX_CACHED_TREES + 1 entries.
C20_AtMostOneOver ==
    Size(BUFFER_ID_TO_TREE) <= MAX_CACHED_TREES + 1

\* C21 (as claimed): the trim at the end of a handler never pops the entry
\* that the handler has written, and when a handler that wrote the entry of
\* its buffer returns, the cache holds an entry for that buffer, also when the
\* clock gave equal timestamps to successive writes (checked while the loader
\* thread has not run).
C21_OwnEntrySurvivesTrim ==
    [][pc["loader"] = "load_languages"
         => /\ (TrimPop("worker") /\ loc["worker"].wrote)
                 => loc["worker"].victim # loc["worker"].buffer_id
            /\ (Returns("worker") /\ loc["worker"].wrote)
                 => loc["worker"].buffer_id \in DOMAIN BUFFER_ID_TO_TREE']_vars

====
